---- MODULE Spec2Model ----
(***************************************************************************)
(* A model of src/rideSharingApp.js (the final version of the program,    *)
(* lines 443-884): RideSharingApp, RideFactory, User, Driver, Ride and     *)
(* PaymentService, run on the single-threaded JavaScript event loop.       *)
(*                                                                         *)
(* Objects are array positions: a rider is an index into users, a driver  *)
(* an index into drivers, a ride an index into rides.  Time is kept in     *)
(* milliseconds as the time left on every pending setTimeout.              *)
(* Driver.VIPRaiting is kept in halves (the model's number is twice the    *)
(* program's), because the program adds raiting / 2 to it.                 *)
(***************************************************************************)
EXTENDS Integers, Sequences, FiniteSets, TLC

\* ------------------------------------------------- program constants
PremiumThreshold == 50
VIPThreshold == 4
MaxRaiting == 5
MaxDistance == 100
FarePerDistance == 2
CardDigits == 16
MinExpiration == 20
PacingDelay == 2000
DurationPerDistance == 100

\* ------------------------------------------------------------ bounds
MaxUsers == 2
MaxDrivers == 2
MaxRides == 3

\* The size of the batch that is followed to its fifth ride.
LongRides == 5

\* The location lists the app may be built with: none, or one location.
LocationLists == { << >>, << 1 >> }

\* The distances Math.random() is allowed to draw (a sample of 1..MaxDistance):
\* 10 completes before the next ride is settled, 50 after it, and 50 reaches
\* the premium threshold in one ride.
Distances == { d \in 1..MaxDistance : d \in {10, 50} }

\* The raitings Math.random() is allowed to draw in a batch (a sample of
\* 1..MaxRaiting): after a first raiting of 1 a driver is not VIP, after a
\* first raiting of 4 it is.
Raitings == { r \in 1..MaxRaiting : r \in {1, 4} }

\* How many times a driver is rated when Driver.addRaiting is driven alone.
MaxCalls == 4

\* The greatest balance when PaymentService.validatePayment is driven alone.
MaxBalance == 4

\* How many times RideSharingApp is constructed again after newApp.
MaxConstructions == 1

\* How many callbacks are subscribed when EventEmitter is driven alone.
MaxSubscriptions == 3

\* The payment details a seeded rider may have: <<digits of cardNumber,
\* expirationDate, balance>> (a sample of usersData).
Profiles == { <<16, 111, 1000>>, <<16, 111, 100>> }

\* The payment details of the first two seeded riders, u1 and u2: the card
\* number of u2 has 15 digits.
FirstTwo == << <<16, 111, 1000>>, <<15, 111, 1000>> >>

\* What array[randomIndex] yields on an empty array, and what a missing
\* property reads as.
undefined == 0

VARIABLES
    users,      \* this.users: sequence of User records
    drivers,    \* this.drivers: sequence of Driver records
    locations,  \* this.locations: sequence of location tokens
    rides,      \* this.rides: sequence of Ride records
    timers,     \* pending setTimeout callbacks
    pc,         \* where startApp is
    numRides,   \* the argument of startApp (numeric part)
    i,          \* the loop counter of generateRides
    log,        \* console output and emitted events, in order
    listeners,  \* this.eventEmitter.listeners: the callbacks of every event
    constructed \* what every later new RideSharingApp(...) built and returned

vars == <<users, drivers, locations, rides, timers, pc, numRides, i, log,
          listeners, constructed>>

\* ------------------------------------------------------------ classes

\* new User(id, name, paymentDetails, inRide, false): premiumPoints starts as
\* false, which counts as 0 in += and in >=.
User(profile) ==
    [ cardDigits |-> profile[1], expirationDate |-> profile[2],
      balance |-> profile[3], inRide |-> FALSE, premiumPoints |-> 0,
      isPremium |-> FALSE ]

\* new Driver(d.id, d.name, 0, true)
Driver ==
    [ profit |-> 0, isAvailable |-> TRUE, isVIP |-> FALSE, VIPRaiting |-> 0 ]

\* Faulty variant: the fare is the distance.
rideRequestFlatFare(pickUp, dropOff, user, driver, distance) ==
    [ pickUp |-> pickUp, dropOff |-> dropOff,
      fare |-> distance, status |-> "requested",
      distance |-> distance, user |-> user, driver |-> driver ]

\* Faulty variant: the ride is built with the status a ride has once accepted.
rideRequestActive(pickUp, dropOff, user, driver, distance) ==
    [ pickUp |-> pickUp, dropOff |-> dropOff,
      fare |-> distance * FarePerDistance, status |-> "active",
      distance |-> distance, user |-> user, driver |-> driver ]

\* RideFactory.rideRequest, given the distance drawn
rideRequest(pickUp, dropOff, user, driver, distance) ==
    [ pickUp |-> pickUp, dropOff |-> dropOff,
      fare |-> distance * FarePerDistance, status |-> "requested",
      distance |-> distance, user |-> user, driver |-> driver ]

\* Faulty variant: user.PremiumUser reads as a truthy value.
PremiumUserTruthy(u) == TRUE

\* user.PremiumUser: no constructor assigns such a property, so it reads
\* undefined, which is falsy.
PremiumUser(u) == FALSE

\* Faulty variant: the balance is not looked at.
validatePaymentAnyBalance(paymentDetails, fare) ==
    /\ paymentDetails.cardDigits = CardDigits
    /\ paymentDetails.expirationDate > MinExpiration

\* Faulty variant: the balance has to exceed the fare.
validatePaymentStrict(paymentDetails, fare) ==
    /\ paymentDetails.cardDigits = CardDigits
    /\ paymentDetails.expirationDate > MinExpiration
    /\ paymentDetails.balance > fare

\* PaymentService.validatePayment
validatePayment(paymentDetails, fare) ==
    /\ paymentDetails.cardDigits = CardDigits
    /\ paymentDetails.expirationDate > MinExpiration
    /\ paymentDetails.balance >= fare

\* Faulty variant: the upgrade does not look at isPremium.
UserCheckForUpgradeRepeated(u, uid) ==
    IF u.premiumPoints >= PremiumThreshold
    THEN << [u EXCEPT !.isPremium = TRUE], << <<"premiumUser", uid>> >> >>
    ELSE << u, << >> >>

\* Faulty variant: the upgrade needs more than the threshold.
UserCheckForUpgradeStrict(u, uid) ==
    IF u.premiumPoints > PremiumThreshold /\ ~u.isPremium
    THEN << [u EXCEPT !.isPremium = TRUE], << <<"premiumUser", uid>> >> >>
    ELSE << u, << >> >>

\* User.checkForUpgrade with User.upgradeToPremium: <<user, events>>
UserCheckForUpgrade(u, uid) ==
    IF u.premiumPoints >= PremiumThreshold /\ ~u.isPremium
    THEN << [u EXCEPT !.isPremium = TRUE], << <<"premiumUser", uid>> >> >>
    ELSE << u, << >> >>

\* Faulty variant: the points added are the fare.
addPointsFare(u, uid, points) ==
    LET u1 == [u EXCEPT !.premiumPoints = @ + points * FarePerDistance]
        up == UserCheckForUpgrade(u1, uid)
    IN  << up[1], << <<"pointsEarned", uid>> >> \o up[2] >>

\* User.addPoints: <<user, events>>
addPoints(u, uid, points) ==
    LET u1 == [u EXCEPT !.premiumPoints = @ + points]
        up == UserCheckForUpgrade(u1, uid)
    IN  << up[1], << <<"pointsEarned", uid>> >> \o up[2] >>

\* Driver.checkForUpgrade with upgradetoVIP and downgradeToRegular.
\* VIPRaiting is in halves, so the threshold is doubled.
DriverCheckForUpgrade(d, did) ==
    IF d.VIPRaiting >= 2 * VIPThreshold /\ ~d.isVIP
    THEN << [d EXCEPT !.isVIP = TRUE], << <<"VIPDriver", did>> >> >>
    ELSE IF d.VIPRaiting < 2 * VIPThreshold /\ d.isVIP
    THEN << [d EXCEPT !.isVIP = FALSE], << <<"regularDriver", did>> >> >>
    ELSE << d, << >> >>

\* Faulty variant: the score is the mean of the old score and the raiting.
NewRaitingMean(old, raiting) ==
    IF old = 0 THEN 2 * raiting ELSE (old + 2 * raiting) \div 2

\* Faulty variant: the first raiting is kept as the score (an else before the +=).
NewRaitingElse(old, raiting) ==
    IF old = 0 THEN 2 * raiting ELSE old + old + raiting

\* The two assignments of Driver.addRaiting, in halves: the new VIPRaiting.
\* if (VIPRaiting === 0) VIPRaiting = raiting;  (no else)
\* VIPRaiting += VIPRaiting + raiting / 2;
NewRaiting(old, raiting) ==
    LET v == IF old = 0 THEN 2 * raiting ELSE old
    IN  v + v + raiting

\* Faulty variant: addRaiting does not call checkForUpgrade.
addRaitingUnchecked(d, did, raiting) ==
    << [d EXCEPT !.VIPRaiting = NewRaiting(@, raiting)], << >> >>

\* Driver.addRaiting: <<driver, events>>
addRaiting(d, did, raiting) ==
    DriverCheckForUpgrade([d EXCEPT !.VIPRaiting = NewRaiting(@, raiting)], did)

\* ------------------------------------------------------------- timers

Pacing(ride) == [ kind |-> "pacing", ride |-> ride, left |-> PacingDelay, raiting |-> 0 ]

\* Faulty variant: the completion carries no raiting.
CompletionUnrated(ride, distance, raiting) ==
    [ kind |-> "complete", ride |-> ride,
      left |-> distance * DurationPerDistance, raiting |-> 0 ]

Completion(ride, distance, raiting) ==
    [ kind |-> "complete", ride |-> ride,
      left |-> distance * DurationPerDistance, raiting |-> raiting ]

\* A timer may fire when no other pending timer is due earlier.  Timers due
\* at the same millisecond fire in either order.
Due(t) == t \in timers /\ \A o \in timers : t.left <= o.left

\* The pending timers once t has fired: the time t waited has passed for all.
Elapse(t) == { [o EXCEPT !.left = @ - t.left] : o \in timers \ {t} }

\* ------------------------------------------------------- EventEmitter

\* The events of the program.
Events == {"pointsEarned", "premiumUser", "VIPDriver", "regularDriver"}

\* new EventEmitter(): no event has a callback (an absent list and an empty
\* one are the same to emit).
EventEmitter == [ e \in Events |-> << >> ]

\* EventEmitter.on: the listeners with callback pushed on the list of event.
on(ls, event, callback) == [ls EXCEPT ![event] = Append(@, callback)]

\* Faulty variant: the callbacks are invoked last subscribed first.
emitReversed(ls, event, data) ==
    [ j \in 1..Len(ls[event]) |->
        <<"call", ls[event][Len(ls[event]) + 1 - j], data>> ]

\* EventEmitter.emit: the calls forEach makes before emit returns, in order,
\* each <<"call", callback, data>>; none when the event has no list.
emit(ls, event, data) ==
    [ j \in 1..Len(ls[event]) |-> <<"call", ls[event][j], data>> ]

\* RideSharingApp.setupListenersPremium on a new emitter: the four logging
\* callbacks, numbered in the order they are written.
setupListenersPremium ==
    on(on(on(on(EventEmitter, "pointsEarned", 1), "premiumUser", 2),
          "VIPDriver", 3), "regularDriver", 4)

\* ---------------------------------------------------------------- Init

SeqsUpTo(S, n) == UNION { [1..k -> S] : k \in 0..n }

Init ==
    /\ \E ps \in SeqsUpTo(Profiles, MaxUsers) :
          users = [k \in 1..Len(ps) |-> User(ps[k])]
    /\ locations \in LocationLists
    /\ drivers = << >>
    /\ rides = << >>
    /\ timers = {}
    /\ pc = "idle"
    /\ numRides = 0
    /\ i = 0
    /\ log = << >>
    /\ listeners = setupListenersPremium
    /\ constructed = << >>

\* -------------------------------------------------------------- actions

\* The values startApp may be given: a non-number, or a number.
NumRidesInputs ==
    { [isNumber |-> FALSE, value |-> 0] }
        \cup { [isNumber |-> TRUE, value |-> v] : v \in (0 - 1)..MaxRides }

\* RideSharingApp.startApp up to its first await.
StartApp(n) ==
    /\ pc = "idle"
    /\ IF ~n.isNumber
       THEN /\ log' = Append(log, <<"inputShouldBeNumber", 0>>)
            /\ pc' = "done"
            /\ UNCHANGED numRides
       ELSE /\ log' = Append(log, <<"appStarted", 0>>)
            /\ pc' = "fetching"
            /\ numRides' = n.value
    /\ UNCHANGED <<users, drivers, locations, listeners, constructed, rides, timers, i>>

\* RideSharingApp.fetchDrivers once the request has settled: the directory
\* answers with count records, or the request fails and the error is logged.
\* startApp then calls processMultipleRides, which starts the generator.
FetchDrivers ==
    /\ pc = "fetching"
    /\ \/ \E count \in 0..MaxDrivers :
             /\ drivers' = [k \in 1..count |-> Driver]
             /\ log' = log
       \/ /\ drivers' = drivers
          /\ log' = Append(log, <<"errorFetchingDrivers", 0>>)
    /\ pc' = "generate"
    /\ i' = 0
    /\ UNCHANGED <<users, locations, listeners, constructed, rides, timers, numRides>>

\* RideSharingApp.randomIndexMethod over the set of positions an array
\* holds: any of them, or undefined when the array is empty.
randomIndexMethod(positions) ==
    IF positions = {} THEN {undefined} ELSE positions

\* Faulty variant: the riders are not filtered.
AllUsers == 1..Len(users)

\* this.users.filter(u => !u.inRide), as positions
FreeUsers == { u \in 1..Len(users) : ~users[u].inRide }

\* this.drivers.filter(d => d.isAvailable), as positions
AvailableDrivers == { d \in 1..Len(drivers) : drivers[d].isAvailable }

\* Faulty variant: the guard does not look at the drivers.
NotInitializedDriversUnchecked == Len(locations) = 0 \/ Len(users) = 0

\* The guard of the throw in generateRides.
NotInitialized == Len(locations) = 0 \/ Len(users) = 0 \/ Len(drivers) = 0

\* Faulty variant: the generator is asked for the next ride at once.
AfterYieldEager == "generate"

\* Where the batch stands once the generator has yielded the promise of a
\* ride: for await waits for the promise, which the pacing timer resolves,
\* and runs its body before it asks the generator again.
AfterYield == "paced"

\* Faulty variant: the generator is asked again after it has thrown.
AfterThrowRetry == "generate"

\* Where the batch stands once the generator has thrown: for await rejects,
\* processMultipleRides rejects, and the catch of startApp logs the error and
\* ends startApp.
AfterThrow == "error"

\* One pass of the for loop of generateRides, from its test to its yield
\* (or to the end of the generator, or to a throw, which startApp catches).
generateRides(distances) ==
    /\ pc = "generate"
    /\ IF ~(i < numRides)
       THEN /\ pc' = "done"
            /\ UNCHANGED <<rides, timers, i, log>>
       ELSE IF NotInitialized
       THEN /\ pc' = AfterThrow
            /\ log' = Append(log, <<"errorStartingNotInitialized", 0>>)
            /\ UNCHANGED <<rides, timers, i>>
       ELSE \E pickUp \in randomIndexMethod(1..Len(locations)),
               dropOff \in randomIndexMethod(1..Len(locations)),
               user \in randomIndexMethod(FreeUsers),
               driver \in randomIndexMethod(AvailableDrivers),
               distance \in distances :
            /\ rides' = Append(rides, rideRequest(pickUp, dropOff, user, driver, distance))
            /\ IF user = undefined
               THEN \* user.name throws a TypeError after the push
                    /\ pc' = AfterThrow
                    /\ log' = Append(log, <<"errorStartingTypeError", 0>>)
                    /\ UNCHANGED <<timers, i>>
               ELSE /\ log' = Append(log, <<"requested", Len(rides) + 1>>)
                    /\ timers' = timers \cup {Pacing(Len(rides) + 1)}
                    /\ i' = i + 1
                    /\ pc' = AfterYield
    /\ UNCHANGED <<users, drivers, locations, listeners, constructed, numRides>>

\* generateRides with the distances a batch is allowed to draw.
GenerateRides == generateRides(Distances)

\* PaymentService.processPayment: <<users, drivers>> after the transfer.
processPayment(uid, fare, did) ==
    << [users EXCEPT ![uid].balance = @ - fare],
       [drivers EXCEPT ![did].profit = @ + fare] >>

\* Faulty variant: the payment is processed before it is validated.
paymentChargeFirst(k) ==
    LET ride == rides[k]
        uid == ride.user
        did == ride.driver
        fare == ride.fare
    IN  IF did = undefined
        THEN [ users |-> [users EXCEPT ![uid].balance = @ - fare],
               drivers |-> drivers, out |-> << >>, result |-> "throw" ]
        ELSE IF validatePayment(users[uid], fare)
        THEN [ users |-> [users EXCEPT ![uid].balance = @ - fare],
               drivers |-> [drivers EXCEPT ![did].profit = @ + fare],
               out |-> << <<"paid", k>> >>, result |-> "true" ]
        ELSE [ users |-> [users EXCEPT ![uid].balance = @ - fare],
               drivers |-> [drivers EXCEPT ![did].profit = @ + fare],
               out |-> << <<"failedToPay", k>> >>, result |-> "false" ]

\* RideSharingApp.payment(ride) for the ride at position k.  result is
\* "true" or "false", or "throw" when driver is undefined and the rider has
\* already been debited by processPayment.
payment(k) ==
    LET ride == rides[k]
        uid == ride.user
        did == ride.driver
        fare == ride.fare
    IN  IF validatePayment(users[uid], fare)
        THEN IF did = undefined
             THEN [ users |-> [users EXCEPT ![uid].balance = @ - fare],
                    drivers |-> drivers, out |-> << >>, result |-> "throw" ]
             ELSE [ users |-> processPayment(uid, fare, did)[1],
                    drivers |-> processPayment(uid, fare, did)[2],
                    out |-> << <<"paid", k>> >>, result |-> "true" ]
        ELSE [ users |-> users, drivers |-> drivers,
               out |-> << <<"failedToPay", k>> >>, result |-> "false" ]

\* The body of the for await loop of processMultipleRides, run when the
\* pacing timer of ride k resolves the promise the generator yielded.  The
\* loop then asks the generator for the next ride in the same turn.
Settle ==
    /\ pc = "paced"
    /\ \E t \in timers :
        /\ Due(t)
        /\ t.kind = "pacing"
        /\ LET k == t.ride
               ride == rides[k]
               uid == ride.user
               did == ride.driver
               p == payment(k)
           IN  IF p.result = "throw" \/ did = undefined
               THEN \* TypeError on driver.profit or on driver.isVIP
                    /\ users' = p.users
                    /\ drivers' = p.drivers
                    /\ log' = log \o p.out \o << <<"errorStartingTypeError", 0>> >>
                    /\ pc' = "error"
                    /\ timers' = Elapse(t)
                    /\ UNCHANGED rides
               ELSE IF p.drivers[did].isVIP /\ ~PremiumUser(p.users[uid])
               THEN /\ users' = p.users
                    /\ drivers' = p.drivers
                    /\ log' = log \o p.out \o << <<"deniedVIP", k>> >>
                    /\ pc' = "generate"
                    /\ timers' = Elapse(t)
                    /\ UNCHANGED rides
               ELSE IF p.result = "true"
               THEN \E raiting \in Raitings :
                    LET pts == addPoints([p.users[uid] EXCEPT !.inRide = TRUE],
                                         uid, ride.distance)
                    IN  /\ users' = [p.users EXCEPT ![uid] = pts[1]]
                        /\ drivers' = [p.drivers EXCEPT ![did].isAvailable = FALSE]
                        /\ rides' = [rides EXCEPT ![k].status = "active"]
                        /\ log' = log \o p.out \o << <<"accepted", k>> >> \o pts[2]
                        /\ timers' = Elapse(t)
                                        \cup {Completion(k, ride.distance, raiting)}
                        /\ pc' = "generate"
               ELSE /\ users' = p.users
                    /\ drivers' = p.drivers
                    /\ log' = log \o p.out \o << <<"denied", k>> >>
                    /\ pc' = "generate"
                    /\ timers' = Elapse(t)
                    /\ UNCHANGED rides
    /\ UNCHANGED <<locations, listeners, constructed, numRides, i>>

\* Faulty variant: the callback does not make the driver available again.
CompleteKeepsDriver ==
    /\ pc # "generate"
    /\ \E t \in timers :
        /\ Due(t)
        /\ t.kind = "complete"
        /\ LET k == t.ride
               uid == rides[k].user
               did == rides[k].driver
               rated == addRaiting(drivers[did], did, t.raiting)
           IN  /\ users' = [users EXCEPT ![uid].inRide = FALSE]
               /\ drivers' = [drivers EXCEPT ![did] = rated[1]]
               /\ rides' = [rides EXCEPT ![k].status = "completed"]
               /\ log' = log \o << <<"completed", k>> >> \o rated[2]
               /\ timers' = Elapse(t)
    /\ UNCHANGED <<locations, listeners, constructed, pc, numRides, i>>

\* The callback rideCompleted schedules, with the raiting drawn when it was
\* scheduled.  It runs between turns of the batch, never inside one.
Complete ==
    /\ pc # "generate"
    /\ \E t \in timers :
        /\ Due(t)
        /\ t.kind = "complete"
        /\ LET k == t.ride
               uid == rides[k].user
               did == rides[k].driver
               rated == addRaiting([drivers[did] EXCEPT !.isAvailable = TRUE],
                                   did, t.raiting)
           IN  /\ users' = [users EXCEPT ![uid].inRide = FALSE]
               /\ drivers' = [drivers EXCEPT ![did] = rated[1]]
               /\ rides' = [rides EXCEPT ![k].status = "completed"]
               /\ log' = log \o << <<"completed", k>> >> \o rated[2]
               /\ timers' = Elapse(t)
    /\ UNCHANGED <<locations, listeners, constructed, pc, numRides, i>>

Next ==
    \/ \E n \in NumRidesInputs : StartApp(n)
    \/ FetchDrivers
    \/ GenerateRides
    \/ Settle
    \/ Complete

Spec == Init /\ [][Next]_vars

\* ------------------------------------------------- a batch of five

\* The app built with the first two seeded riders and one location.
InitLong ==
    /\ users = [k \in 1..Len(FirstTwo) |-> User(FirstTwo[k])]
    /\ locations = << 1 >>
    /\ drivers = << >>
    /\ rides = << >>
    /\ timers = {}
    /\ pc = "idle"
    /\ numRides = 0
    /\ i = 0
    /\ log = << >>
    /\ listeners = setupListenersPremium
    /\ constructed = << >>

\* newApp.startApp(LongRides) and what follows it.
NextLong ==
    \/ StartApp([isNumber |-> TRUE, value |-> LongRides])
    \/ FetchDrivers
    \/ GenerateRides
    \/ Settle
    \/ Complete

SpecLong == InitLong /\ [][NextLong]_vars

\* The same app started with any count startApp may be given.
SpecSeeded == InitLong /\ [][Next]_vars

\* The event loop runs a pending continuation or a timer that is due: the
\* seeded app never stops while a step of it is possible.
SpecSeededFair == SpecSeeded /\ WF_vars(Next)

\* ------------------------------------------------- a batch of one

\* The app built with one location and one rider who has a 16-digit card, a
\* valid expirationDate and balance 1000.
InitOne ==
    /\ users = << User(<<16, 111, 1000>>) >>
    /\ locations = << 1 >>
    /\ drivers = << >>
    /\ rides = << >>
    /\ timers = {}
    /\ pc = "idle"
    /\ numRides = 0
    /\ i = 0
    /\ log = << >>
    /\ listeners = setupListenersPremium
    /\ constructed = << >>

\* newApp.startApp(1) with one driver in the directory, and any distance
\* rideRequest can draw.
NextOne ==
    \/ StartApp([isNumber |-> TRUE, value |-> 1])
    \/ FetchDrivers /\ Len(drivers') = 1
    \/ generateRides(1..MaxDistance)
    \/ Settle
    \/ Complete

\* The event loop runs whatever is pending: the fetch settles and every
\* timer fires.
SpecOne == InitOne /\ [][NextOne]_vars /\ WF_vars(NextOne)

\* ------------------------------------------- the singleton

\* The app #inst refers to, as a record of its fields.
Inst ==
    [ users |-> users, locations |-> locations, drivers |-> drivers,
      rides |-> rides, listeners |-> listeners ]

\* The fields the constructor assigns to its new object before it looks at
\* #inst.
NewApp(us, ls) ==
    [ users |-> us, locations |-> ls, drivers |-> << >>,
      rides |-> << >>, listeners |-> EventEmitter ]

\* Faulty variant: #inst is not tested, the new object becomes the app.
constructAlways(inst, this) ==
    [ inst |-> [this EXCEPT !.listeners = setupListenersPremium],
      returned |-> "this" ]

\* The end of the constructor once #inst is set (as it is from newApp on):
\* the app #inst refers to afterwards, and the object the call returns.
construct(inst, this) == [ inst |-> inst, returned |-> "inst" ]

\* new RideSharingApp(paymentService, us, ls), called at any moment after
\* newApp exists.  after tells how many lines had been logged by then.
Construct ==
    /\ Len(constructed) < MaxConstructions
    /\ \E ps \in SeqsUpTo(Profiles, 1), ls \in LocationLists :
          LET this == NewApp([k \in 1..Len(ps) |-> User(ps[k])], ls)
              c == construct(Inst, this)
          IN  /\ users' = c.inst.users
              /\ locations' = c.inst.locations
              /\ drivers' = c.inst.drivers
              /\ rides' = c.inst.rides
              /\ listeners' = c.inst.listeners
              /\ constructed' = Append(constructed,
                     [ this |-> this, returned |-> c.returned, after |-> Len(log) ])
    /\ UNCHANGED <<timers, pc, numRides, i, log>>

\* The batch of one, with constructor calls in between.
NextSingleton ==
    \/ NextOne
    \/ Construct

SpecSingleton == InitOne /\ [][NextSingleton]_vars

\* ------------------------------------------- Driver.addRaiting alone

\* The raitings given so far when addRaiting is driven alone, oldest first.
Given == SelectSeq(log, LAMBDA e : e[1] = "addRaiting")

\* One driver as fetchDrivers builds it, and nothing else.
InitRaiting ==
    /\ drivers = << Driver >>
    /\ users = << >>
    /\ locations = << >>
    /\ rides = << >>
    /\ timers = {}
    /\ pc = "done"
    /\ numRides = 0
    /\ i = 0
    /\ log = << >>
    /\ listeners = setupListenersPremium
    /\ constructed = << >>

\* driver.addRaiting(raiting, eventEmitter) with any raiting rideCompleted
\* can draw.
RateDriver ==
    /\ Len(Given) < MaxCalls
    /\ \E raiting \in 1..MaxRaiting :
          LET rated == addRaiting(drivers[1], 1, raiting)
          IN  /\ drivers' = [drivers EXCEPT ![1] = rated[1]]
              /\ log' = log \o << <<"addRaiting", raiting>> >> \o rated[2]
    /\ UNCHANGED <<users, locations, listeners, constructed, rides, timers, pc, numRides, i>>

NextRaiting == RateDriver

SpecRaiting == InitRaiting /\ [][NextRaiting]_vars

\* ------------------------------------------- User.addPoints alone

\* The distances of the rides a rider is given points for when addPoints is
\* driven alone (a sample of 1..MaxDistance around PremiumThreshold).
PointsDistances == { d \in 1..MaxDistance : d \in {1, 10, 49, 50, 100} }

\* The calls of addPoints so far when it is driven alone, oldest first.
Earned == SelectSeq(log, LAMBDA e : e[1] = "addPoints")

\* One seeded rider, and nothing else.
InitPoints ==
    /\ users = << User(<<16, 111, 1000>>) >>
    /\ drivers = << >>
    /\ locations = << >>
    /\ rides = << >>
    /\ timers = {}
    /\ pc = "done"
    /\ numRides = 0
    /\ i = 0
    /\ log = << >>
    /\ listeners = setupListenersPremium
    /\ constructed = << >>

\* user.addPoints(ride.distance, eventEmitter) with the distance of any
\* ride, as processMultipleRides calls it.
AddPoints ==
    /\ Len(Earned) < MaxCalls
    /\ \E distance \in PointsDistances :
          LET pts == addPoints(users[1], 1, distance)
          IN  /\ users' = [users EXCEPT ![1] = pts[1]]
              /\ log' = log \o << <<"addPoints", distance>> >> \o pts[2]
    /\ UNCHANGED <<drivers, locations, listeners, constructed, rides, timers,
                   pc, numRides, i>>

NextPoints == AddPoints

SpecPoints == InitPoints /\ [][NextPoints]_vars

\* ------------------------------------------- EventEmitter alone

\* The callbacks subscribed when EventEmitter is driven alone: two of the
\* four setupListenersPremium subscribes.
Callbacks == {1, 2}

\* The payloads emitted when EventEmitter is driven alone.
Payloads == {1, 2}

\* Whether emit has been called when EventEmitter is driven alone.
Emitted == \E j \in 1..Len(log) : log[j][1] = "emit"

\* new EventEmitter(), and nothing else.
InitEmitter ==
    /\ listeners = EventEmitter
    /\ users = << >>
    /\ drivers = << >>
    /\ locations = << >>
    /\ rides = << >>
    /\ timers = {}
    /\ pc = "done"
    /\ numRides = 0
    /\ i = 0
    /\ log = << >>
    /\ constructed = << >>

\* eventEmitter.on(event, callback), written down as <<"on", event, callback>>.
On ==
    /\ ~Emitted
    /\ Len(log) < MaxSubscriptions
    /\ \E event \in Events, callback \in Callbacks :
          /\ listeners' = on(listeners, event, callback)
          /\ log' = Append(log, <<"on", event, callback>>)
    /\ UNCHANGED <<users, drivers, locations, constructed, rides, timers,
                   pc, numRides, i>>

\* eventEmitter.emit(event, data), written down as <<"emit", event, data>>
\* and followed by the calls it makes.
Emit ==
    /\ ~Emitted
    /\ \E event \in Events, data \in Payloads :
          log' = Append(log, <<"emit", event, data>>) \o emit(listeners, event, data)
    /\ UNCHANGED <<users, drivers, locations, listeners, constructed, rides,
                   timers, pc, numRides, i>>

NextEmitter ==
    \/ On
    \/ Emit

SpecEmitter == InitEmitter /\ [][NextEmitter]_vars

\* ------------------------------- PaymentService.validatePayment alone

\* One rider whose card number has a digit less, as many or a digit more
\* than a card has, whose expirationDate is at or just above the minimum,
\* with a small balance.
InitPayment ==
    /\ \E digits \in (CardDigits - 1)..(CardDigits + 1),
          expirationDate \in MinExpiration..(MinExpiration + 1),
          balance \in 0..MaxBalance :
          users = << User(<<digits, expirationDate, balance>>) >>
    /\ drivers = << >>
    /\ locations = << >>
    /\ rides = << >>
    /\ timers = {}
    /\ pc = "done"
    /\ numRides = 0
    /\ i = 0
    /\ log = << >>
    /\ listeners = setupListenersPremium
    /\ constructed = << >>

\* paymentService.validatePayment(user.paymentDetails, fare), once, with the
\* answer written down.
ValidatePayment ==
    /\ log = << >>
    /\ \E fare \in 0..(MaxBalance + 1) :
          log' = << << IF validatePayment(users[1], fare)
                       THEN "paymentValid" ELSE "paymentInvalid", fare >> >>
    /\ UNCHANGED <<users, drivers, locations, listeners, constructed, rides,
                   timers, pc, numRides, i>>

NextPayment == ValidatePayment

SpecPayment == InitPayment /\ [][NextPayment]_vars

\* --------------------------------------------------------------- types

TypeOK ==
    /\ pc \in {"idle", "fetching", "generate", "paced", "done", "error"}
    /\ \A k \in 1..Len(rides) :
          /\ rides[k].user \in 0..Len(users)
          /\ rides[k].driver \in 0..Len(drivers)
          /\ rides[k].status \in {"requested", "active", "completed"}
    /\ \A t \in timers : t.left >= 0

\* -------------------------------------------------------------- claims

\* The step in which ride k is settled: the loop body of
\* processMultipleRides runs for the ride the generator yielded last.
Settling(k) == pc = "paced" /\ pc' # "paced" /\ k = Len(rides)

\* Ride k names a driver, and that driver is VIP now.
VIPDriverOf(k) ==
    rides[k].driver # undefined /\ drivers[rides[k].driver].isVIP

\* The rider of ride k is Premium now.
PremiumRiderOf(k) == users[rides[k].user].isPremium

\* Some entry of the log is e.
Logged(e) == \E j \in 1..Len(log) : log[j] = e

\* C1: a ride whose driver is VIP and whose rider is Premium and whose
\* payment validates when it is settled becomes active, with the driver
\* unavailable and the rider in a ride.
C1_VIPPremiumActive ==
    [][ \A k \in 1..Len(rides) :
          ( /\ Settling(k)
            /\ VIPDriverOf(k)
            /\ PremiumRiderOf(k)
            /\ validatePayment(users[rides[k].user], rides[k].fare) )
          => /\ rides'[k].status = "active"
             /\ ~drivers'[rides[k].driver].isAvailable
             /\ users'[rides[k].user].inRide ]_vars

\* C2: settling a ride whose driver is VIP and whose rider is not Premium
\* charges nothing and marks nobody busy: the rider's balance and inRide and
\* the driver's profit and isAvailable are what they were.
C2_IneligibleNotCharged ==
    [][ \A k \in 1..Len(rides) :
          ( Settling(k) /\ VIPDriverOf(k) /\ ~PremiumRiderOf(k) )
          => /\ users'[rides[k].user].balance = users[rides[k].user].balance
             /\ users'[rides[k].user].inRide = users[rides[k].user].inRide
             /\ drivers'[rides[k].driver].profit = drivers[rides[k].driver].profit
             /\ drivers'[rides[k].driver].isAvailable
                   = drivers[rides[k].driver].isAvailable ]_vars

\* C3: no active ride has a VIP driver and a rider who is not Premium, and
\* settling a ride whose driver is VIP and whose rider is not Premium denies
\* it with the VIP message, whether or not the payment validated.
C3_VIPStandardDenied ==
    /\ [](\A k \in 1..Len(rides) :
            rides[k].status = "active" => ~(VIPDriverOf(k) /\ ~PremiumRiderOf(k)))
    /\ [][ \A k \in 1..Len(rides) :
             ( Settling(k) /\ VIPDriverOf(k) /\ ~PremiumRiderOf(k) )
             => /\ rides'[k].status = "requested"
                /\ log'[Len(log')] = <<"deniedVIP", k>> ]_vars

\* C3 witness: a ride of a rider who is not Premium was paid for and denied
\* by its VIP driver.
C3_Witness ==
    \E k \in 1..Len(rides) :
        /\ Logged(<<"paid", k>>) /\ Logged(<<"deniedVIP", k>>)
        /\ VIPDriverOf(k) /\ ~PremiumRiderOf(k)
        /\ rides[k].status = "requested"

\* C4: the amount a settled ride is validated against, debited from the
\* rider and credited to the driver is fare * 0.9 when the rider is Premium
\* and fare when not (amounts compared in tenths).
C4_PremiumDiscount ==
    [][ \A k \in 1..Len(rides) :
          ( Settling(k) /\ rides[k].driver # undefined )
          => LET u == users[rides[k].user]
                 d == drivers[rides[k].driver]
                 tenths == IF u.isPremium THEN 9 * rides[k].fare
                                          ELSE 10 * rides[k].fare
                 valid == /\ u.cardDigits = CardDigits
                          /\ u.expirationDate > MinExpiration
                          /\ 10 * u.balance >= tenths
                 debit == 10 * (u.balance - users'[rides[k].user].balance)
                 credit == 10 * (drivers'[rides[k].driver].profit - d.profit)
             IN  /\ debit = (IF valid THEN tenths ELSE 0)
                 /\ credit = debit ]_vars

\* The raitings given to the driver rated alone, as numbers, oldest first.
GivenRaitings == [ j \in 1..Len(Given) |-> Given[j][2] ]

\* Twice the score the claim C5 gives a driver rated rs from score 0: the
\* first raiting itself, then score + score + r/2 for every later one.
RECURSIVE ClaimedHalves(_)
ClaimedHalves(rs) ==
    IF Len(rs) = 0 THEN 0
    ELSE IF Len(rs) = 1 THEN 2 * rs[1]
    ELSE 2 * ClaimedHalves(SubSeq(rs, 1, Len(rs) - 1)) + rs[Len(rs)]

\* Twice the score of a driver rated rs from score 0 when the first raiting
\* r1 leaves r1 + r1 + r1/2 and every later one score + score + r/2.
RECURSIVE AmendedHalves(_)
AmendedHalves(rs) ==
    IF Len(rs) = 0 THEN 0
    ELSE IF Len(rs) = 1 THEN 5 * rs[1]
    ELSE 2 * AmendedHalves(SubSeq(rs, 1, Len(rs) - 1)) + rs[Len(rs)]

\* C5 as stated: from score 0 the first addRaiting(r1) leaves the score r1
\* and every later addRaiting(r) leaves score + score + r/2, so that the
\* raitings 3, 4, 2 leave the scores 3, 8 and 17 (6, 16 and 34 halves).
C5_FirstRaitingIsScore ==
    /\ drivers[1].VIPRaiting = ClaimedHalves(GivenRaitings)
    /\ GivenRaitings = <<3>> => drivers[1].VIPRaiting = 6
    /\ GivenRaitings = <<3, 4>> => drivers[1].VIPRaiting = 16
    /\ GivenRaitings = <<3, 4, 2>> => drivers[1].VIPRaiting = 34

\* C5 amended: from score 0 the first addRaiting(r1) leaves the score
\* r1 + r1 + r1/2 and every later addRaiting(r) leaves score + score + r/2,
\* so that the raitings 3, 4, 2 leave the scores 7.5, 17 and 35 (15, 34 and
\* 70 halves).
C5_RaitingRecurrence ==
    /\ drivers[1].VIPRaiting = AmendedHalves(GivenRaitings)
    /\ GivenRaitings = <<3>> => drivers[1].VIPRaiting = 15
    /\ GivenRaitings = <<3, 4>> => drivers[1].VIPRaiting = 34
    /\ GivenRaitings = <<3, 4, 2>> => drivers[1].VIPRaiting = 70

\* C5 witness: the driver has been rated 3, then 4, then 2.
C5_Witness == GivenRaitings = <<3, 4, 2>> /\ drivers[1].VIPRaiting = 70

\* C6: every driver is VIP exactly when its score VIPRaiting is at least 4,
\* when it is created and after every addRaiting.
C6_VIPIffScore ==
    \A d \in 1..Len(drivers) :
        drivers[d].isVIP = (drivers[d].VIPRaiting >= 2 * VIPThreshold)

\* C6 witness: a driver rated 1 first, which left it Regular with score 2.5,
\* is VIP after a later raiting.
C6_Witness ==
    /\ Len(GivenRaitings) >= 2
    /\ GivenRaitings[1] = 1
    /\ drivers[1].isVIP
    /\ drivers[1].VIPRaiting >= 2 * VIPThreshold

\* C7: a rider is Premium exactly when its premiumPoints are at least 50, and
\* a Premium rider stays Premium.
C7_PremiumIffPoints ==
    /\ [](\A u \in 1..Len(users) :
            users[u].isPremium = (users[u].premiumPoints >= PremiumThreshold))
    /\ [][ \A u \in 1..Len(users) :
             users[u].isPremium => users'[u].isPremium ]_vars

\* C7 witness: one rider went past 50 points over two rides and is Premium
\* while another has earned points and is not.
C7_Witness ==
    /\ \E u \in 1..Len(users) :
          users[u].isPremium /\ users[u].premiumPoints > PremiumThreshold
    /\ \E u \in 1..Len(users) :
          /\ ~users[u].isPremium
          /\ users[u].premiumPoints > 0
          /\ users[u].premiumPoints < PremiumThreshold

\* C8: no two active rides name the same rider, and no two name the same
\* driver.
C8_OneActiveRideEach ==
    \A k \in 1..Len(rides) : \A j \in 1..Len(rides) :
        ( k # j /\ rides[k].status = "active" /\ rides[j].status = "active" )
        => rides[k].user # rides[j].user /\ rides[k].driver # rides[j].driver

\* C8 witness: two rides are active at once, and a third is being requested
\* by a rider who has already completed a ride.
C8_Witness ==
    /\ \E k \in 1..Len(rides) : \E j \in 1..Len(rides) :
          k # j /\ rides[k].status = "active" /\ rides[j].status = "active"
    /\ \E k \in 1..Len(rides) : rides[k].status = "completed"

\* C9: when a ride is about to be generated and there is no location, no
\* rider out of a ride or no available driver, the batch fails at once with
\* the initialization error, registering no ride and changing no rider or
\* driver.
C9_EmptyPoolFails ==
    [][ ( /\ pc = "generate"
          /\ i < numRides
          /\ (Len(locations) = 0 \/ FreeUsers = {} \/ AvailableDrivers = {}) )
        => /\ pc' = "error"
           /\ log' = Append(log, <<"errorStartingNotInitialized", 0>>)
           /\ rides' = rides
           /\ users' = users
           /\ drivers' = drivers ]_vars

\* C10: with no driver in the list when the batch starts, a batch of one
\* ride or more registers no ride: it is about to generate its first ride,
\* or it has failed with the initialization error.
C10_NoDriversNoRide ==
    ( pc \notin {"idle", "fetching"} /\ Len(drivers) = 0 /\ numRides >= 1 )
    => /\ rides = << >>
       /\ pc \in {"generate", "error"}
       /\ pc = "error" => log[Len(log)] = <<"errorStartingNotInitialized", 0>>

\* C10 witness: the fetch failed, a batch of more than one ride was started
\* with riders and locations present, and it has failed with nothing
\* registered.
C10_Witness ==
    /\ pc = "error"
    /\ Logged(<<"errorFetchingDrivers", 0>>)
    /\ Len(drivers) = 0 /\ Len(users) > 0 /\ Len(locations) > 0
    /\ numRides > 1
    /\ rides = << >>
    /\ log[Len(log)] = <<"errorStartingNotInitialized", 0>>

\* C11: with one location, one Standard rider with balance 1000 and a valid
\* 16-digit card and one Regular available driver, a batch of one ride
\* always leads to that ride being completed, and once it is completed the
\* rider is out of a ride, the driver is available and the rider's points
\* are the ride's distance more than the 0 they started at.
C11_OneRideCompletes ==
    /\ <>(Len(rides) = 1 /\ rides[1].status = "completed")
    /\ [](\A k \in 1..Len(rides) :
            rides[k].status = "completed"
            => /\ ~users[rides[k].user].inRide
               /\ drivers[rides[k].driver].isAvailable
               /\ users[rides[k].user].premiumPoints = rides[k].distance)

\* C11 witness: the one ride, of the greatest distance, is completed and
\* the batch is done.
C11_Witness ==
    /\ pc = "done"
    /\ Len(rides) = 1
    /\ rides[1].status = "completed"
    /\ rides[1].distance = MaxDistance
    /\ users[1].premiumPoints = MaxDistance
    /\ ~users[1].inRide
    /\ drivers[1].isAvailable

\* C12: validatePayment answers true exactly when the card number has 16
\* digits, the expirationDate is above 20 and the balance is at least the
\* fare; a 15-digit card is always refused.
C12_ValidatePayment ==
    \A j \in 1..Len(log) :
        /\ log[j][1] \in {"paymentValid", "paymentInvalid"}
        /\ (log[j][1] = "paymentValid")
              <=> ( /\ users[1].cardDigits = 16
                    /\ users[1].expirationDate > 20
                    /\ users[1].balance >= log[j][2] )
        /\ users[1].cardDigits = 15 => log[j][1] = "paymentInvalid"

\* C12 witness: a fare equal to the balance of a 16-digit card was found
\* valid.
C12_Witness ==
    /\ Len(log) = 1
    /\ log[1] = <<"paymentValid", users[1].balance>>
    /\ users[1].balance > 0
    /\ users[1].cardDigits = 16

\* C13: settling a ride whose payment does not validate changes no rider, no
\* driver and no ride, and schedules no completion of that ride.
C13_FailedPaymentNoChange ==
    [][ \A k \in 1..Len(rides) :
          ( /\ Settling(k)
            /\ ~( /\ users[rides[k].user].cardDigits = CardDigits
                  /\ users[rides[k].user].expirationDate > MinExpiration
                  /\ users[rides[k].user].balance >= rides[k].fare ) )
          => /\ users' = users
             /\ drivers' = drivers
             /\ rides' = rides
             /\ \A t \in timers' : ~(t.kind = "complete" /\ t.ride = k) ]_vars

\* C13 witness: a rider who paid an earlier ride failed to pay a later one,
\* which was denied.
C13_Witness ==
    \E k \in 1..Len(rides) : \E j \in 1..(k - 1) :
        /\ rides[j].user = rides[k].user
        /\ Logged(<<"paid", j>>)
        /\ Logged(<<"failedToPay", k>>)
        /\ Logged(<<"denied", k>>)
        /\ users[rides[k].user].balance < rides[k].fare
        /\ rides[k].status = "requested"

\* Ride k was denied by its VIP driver.
DeniedIneligible(k) == Logged(<<"deniedVIP", k>>)

\* Ride k was denied after its payment failed.
DeniedPayment(k) == Logged(<<"denied", k>>)

InvalidCount == pc # "idle" /\ numRides <= 0

\* C15 as stated: when startApp is given a non-number, zero or a negative
\* number, the rejection is reported, the app is not started, the drivers
\* are not fetched or replaced, no ride is registered and no rider changes.
C15_InvalidCountRejected ==
    InvalidCount =>
        /\ Logged(<<"inputShouldBeNumber", 0>>)
        /\ ~Logged(<<"appStarted", 0>>)
        /\ pc = "done"
        /\ drivers = << >>
        /\ rides = << >>
        /\ \A u \in 1..Len(users) : ~users[u].inRide /\ users[u].premiumPoints = 0

\* ---------------------------------------------------------------- C16

\* The step completes ride k.
Completing(k) == rides[k].status = "active" /\ rides'[k].status = "completed"

\* Ride k was completed after the batch had aborted with an error.
CompletedAfterError(k) ==
    \E a \in 1..Len(log) : \E b \in (a + 1)..Len(log) :
        /\ log[a] = <<"errorStartingTypeError", 0>>
        /\ log[b] = <<"completed", k>>

\* C16: every ride that becomes active is eventually completed, also when
\* the batch has aborted; the step that completes it clears inRide of its
\* rider, makes its driver available and applies one raiting in 1..5 to that
\* driver; a completed ride stays completed.
C16_ActiveCompletes ==
    /\ \A k \in 1..MaxRides :
          (k <= Len(rides) /\ rides[k].status = "active")
              ~> (k <= Len(rides) /\ rides[k].status = "completed")
    /\ [][ \A k \in 1..Len(rides) :
             /\ Completing(k) =>
                  /\ ~users'[rides[k].user].inRide
                  /\ drivers'[rides[k].driver].isAvailable
                  /\ \E r \in 1..MaxRaiting :
                        drivers'[rides[k].driver].VIPRaiting
                            = NewRaiting(drivers[rides[k].driver].VIPRaiting, r)
             /\ rides[k].status = "completed" => rides'[k].status = "completed"
         ]_vars

\* C16 witness: a ride was completed after the batch aborted, its rider is
\* free and its driver available and rated.
C16_Witness ==
    /\ pc = "error"
    /\ \E k \in 1..Len(rides) :
          /\ rides[k].status = "completed"
          /\ CompletedAfterError(k)
          /\ ~users[rides[k].user].inRide
          /\ drivers[rides[k].driver].isAvailable
          /\ drivers[rides[k].driver].VIPRaiting > 0

\* ---------------------------------------------------------------- C17

\* C17: a construction after the first returns #inst, and leaves the users,
\* the locations, the drivers, the rides and the listeners of the app as
\* they were.
C17_SecondConstruction ==
    [][ Len(constructed') > Len(constructed) =>
          /\ constructed'[Len(constructed')].returned = "inst"
          /\ UNCHANGED <<users, locations, drivers, rides, listeners>> ]_vars

\* C17 witness: the app was constructed again, with other riders, while its
\* one ride was active, and the ride has since been completed.
C17_Witness ==
    /\ \E c \in 1..Len(constructed) :
          /\ constructed[c].after > 0
          /\ log[constructed[c].after][1] \in {"accepted", "pointsEarned"}
          /\ constructed[c].this.users # users
          /\ constructed[c].returned = "inst"
    /\ Len(drivers) = 1
    /\ Len(rides) = 1
    /\ rides[1].status = "completed"

\* ---------------------------------------------------------------- C18

\* Ride k has been settled: accepted, or denied either way.
Settled(k) ==
    \/ Logged(<<"accepted", k>>)
    \/ DeniedIneligible(k)
    \/ DeniedPayment(k)

\* C18: every registered ride but the last one has been settled, so at most
\* one ride awaits its settle step, and a pending pacing timer is that of
\* the last ride, which has not been settled.
C18_Serialized ==
    /\ \A k \in 1..Len(rides) : k < Len(rides) => Settled(k)
    /\ Cardinality({ k \in 1..Len(rides) : ~Settled(k) }) <= 1
    /\ \A t \in timers :
          t.kind = "pacing" => t.ride = Len(rides) /\ ~Settled(t.ride)

\* C18 witness: an earlier ride was completed after a later one had been
\* generated and before that one is settled.
C18_Witness ==
    /\ pc = "paced"
    /\ \E k \in 2..Len(rides) : \E j \in 1..(k - 1) :
          /\ ~Settled(k)
          /\ Settled(j)
          /\ \E a \in 1..Len(log) : \E b \in (a + 1)..Len(log) :
                log[a] = <<"requested", k>> /\ log[b] = <<"completed", j>>

\* ---------------------------------------------------------------- C19

\* C19 as stated: every registered ride refers to a rider of the app and to
\* a driver of the app, never to undefined.
C19_RideParticipants ==
    \A k \in 1..Len(rides) :
        /\ rides[k].user \in 1..Len(users)
        /\ rides[k].driver \in 1..Len(drivers)

\* ---------------------------------------------------------------- C20

RECURSIVE SumBalance(_)
\* The balances of the riders us, added up.
SumBalance(us) ==
    IF us = << >> THEN 0 ELSE us[1].balance + SumBalance(Tail(us))

RECURSIVE SumProfit(_)
\* The profits of the drivers ds, added up.
SumProfit(ds) ==
    IF ds = << >> THEN 0 ELSE ds[1].profit + SumProfit(Tail(ds))

\* C20 as stated: no step changes the sum of the riders' balances and the
\* drivers' profits, which therefore stays what it was at the start.
C20_FundsConserved ==
    [][ SumBalance(users') + SumProfit(drivers')
          = SumBalance(users) + SumProfit(drivers) ]_vars

\* ---------------------------------------------------------------- C21

\* C21: no rider's balance is negative, and a step lowers a balance only in
\* settling a ride of that rider whose fare validatePayment accepted against
\* the balance as it was, and lowers it by that fare.
C21_NoNegativeBalance ==
    /\ [](\A u \in 1..Len(users) : users[u].balance >= 0)
    /\ [][ \A u \in 1..Len(users) :
             users'[u].balance # users[u].balance =>
                \E k \in 1..Len(rides) :
                   /\ Settling(k)
                   /\ rides[k].user = u
                   /\ validatePayment(users[u], rides[k].fare)
                   /\ users'[u].balance = users[u].balance - rides[k].fare
         ]_vars

\* C21 witness: a rider has paid a fare equal to all that was left.
C21_Witness ==
    \E k \in 1..Len(rides) :
        /\ Logged(<<"paid", k>>)
        /\ rides[k].fare > 0
        /\ users[rides[k].user].balance = 0

\* ---------------------------------------------------------------- C22

\* Some active ride has rider u.
RidingActive(u) ==
    \E k \in 1..Len(rides) : rides[k].status = "active" /\ rides[k].user = u

\* Some active ride has driver d.
DrivingActive(d) ==
    \E k \in 1..Len(rides) : rides[k].status = "active" /\ rides[k].driver = d

\* C22: a rider is inRide exactly when an active ride has that rider, and a
\* driver is unavailable exactly when an active ride has that driver.
C22_BusyFlags ==
    /\ \A u \in 1..Len(users) : users[u].inRide <=> RidingActive(u)
    /\ \A d \in 1..Len(drivers) : ~drivers[d].isAvailable <=> DrivingActive(d)

\* C22 witness: one ride is active with its rider and driver busy, while
\* another ride, of another rider and driver, is completed and both are free.
C22_Witness ==
    \E k \in 1..Len(rides) : \E j \in 1..Len(rides) :
        /\ rides[k].status = "active"
        /\ rides[j].status = "completed"
        /\ rides[j].user # rides[k].user
        /\ rides[j].driver # rides[k].driver
        /\ users[rides[k].user].inRide
        /\ ~drivers[rides[k].driver].isAvailable
        /\ ~users[rides[j].user].inRide
        /\ drivers[rides[j].driver].isAvailable

\* ---------------------------------------------------------------- C23

\* How many times the upgrade of rider u to Premium has been emitted.
Upgrades(u) == Cardinality({ j \in 1..Len(log) : log[j] = <<"premiumUser", u>> })

\* C23: a call of addPoints adds the distance to the rider's points and
\* emits pointsEarned first; it emits the upgrade to Premium after that
\* exactly when the points were below 50 and are now 50 or more, and
\* nothing else; the upgrade is emitted at most once for a rider.
C23_PointsThenUpgrade ==
    /\ [](Upgrades(1) <= 1)
    /\ [][ LET distance == log'[Len(log) + 1][2]
               old == users[1].premiumPoints
           IN  /\ log'[Len(log) + 1][1] = "addPoints"
               /\ users'[1].premiumPoints = old + distance
               /\ log'[Len(log) + 2] = <<"pointsEarned", 1>>
               /\ IF old < PremiumThreshold /\ old + distance >= PremiumThreshold
                  THEN /\ Len(log') = Len(log) + 3
                       /\ log'[Len(log) + 3] = <<"premiumUser", 1>>
                       /\ users'[1].isPremium
                  ELSE /\ Len(log') = Len(log) + 2
                       /\ users'[1].isPremium = users[1].isPremium
         ]_vars

\* C23 witness: the rider was upgraded in a call that was not the first,
\* and has been given points again since, without a second upgrade.
C23_Witness ==
    /\ Upgrades(1) = 1
    /\ log[3] # <<"premiumUser", 1>>
    /\ \E a \in 1..Len(log) : \E b \in (a + 1)..Len(log) :
          log[a] = <<"premiumUser", 1>> /\ log[b][1] = "addPoints"
    /\ users[1].isPremium

\* ---------------------------------------------------------------- C24

\* C24: no raiting in 1..5 lowers a driver's VIPRaiting, a VIP driver stays
\* VIP, and the downgrade to regular is never emitted.
C24_NoDowngrade ==
    /\ [][ \A d \in 1..Len(drivers) :
             /\ drivers'[d].VIPRaiting >= drivers[d].VIPRaiting
             /\ drivers[d].isVIP => drivers'[d].isVIP ]_vars
    /\ [](\A d \in 1..Len(drivers) : ~Logged(<<"regularDriver", d>>))

\* C24 witness: the driver became VIP, was then given the lowest raiting,
\* and is VIP still.
C24_Witness ==
    /\ drivers[1].isVIP
    /\ \E a \in 1..Len(log) : \E b \in (a + 1)..Len(log) :
          log[a] = <<"VIPDriver", 1>> /\ log[b] = <<"addRaiting", 1>>

\* ---------------------------------------------------------------- C25

\* The catch of startApp has logged the initialization error.
InitializationError == Logged(<<"errorStartingNotInitialized", 0>>)

\* C25: once the initialization error is thrown it has been logged by the
\* catch of startApp, once, as the last line logged, and the batch has
\* ended; from then on no ride is registered and the batch does not resume.
C25_InitErrorAborts ==
    /\ [](InitializationError =>
            /\ pc = "error"
            /\ log[Len(log)] = <<"errorStartingNotInitialized", 0>>
            /\ Cardinality({ j \in 1..Len(log) :
                   log[j] = <<"errorStartingNotInitialized", 0>> }) = 1)
    /\ [][ InitializationError => UNCHANGED <<rides, pc, i, log>> ]_vars

\* C25 witness: the batch of a started app with riders and drivers was
\* aborted because there is no location.
C25_Witness ==
    /\ InitializationError
    /\ Logged(<<"appStarted", 0>>)
    /\ numRides > 0
    /\ Len(users) > 0
    /\ Len(drivers) > 0
    /\ Len(locations) = 0
    /\ rides = << >>

\* ---------------------------------------------------------------- C26

\* The subscriptions to event among the first n lines, in the order made.
SubscribedTo(event, n) ==
    SelectSeq(SubSeq(log, 1, n), LAMBDA e : e[1] = "on" /\ e[2] = event)

\* C26: when emit(event, data) returns, the calls it has made are one call
\* for each subscription to event, in the order of subscription and with
\* data, and no other call; none when nothing is subscribed to event.
C26_EmitCallsSubscribers ==
    \A p \in 1..Len(log) :
        log[p][1] = "emit" =>
            LET subscribed == SubscribedTo(log[p][2], p - 1)
                calls == SubSeq(log, p + 1, Len(log))
            IN  /\ Len(calls) = Len(subscribed)
                /\ \A j \in 1..Len(calls) :
                      /\ calls[j][1] = "call"
                      /\ calls[j][2] = subscribed[j][3]
                      /\ calls[j][3] = log[p][3]

\* C26 witness: emit of an event with two subscriptions of different
\* callbacks has called them in order, and has not called the callback
\* subscribed to another event in between them.
C26_Witness ==
    /\ Len(log) = 6
    /\ log[1][1] = "on" /\ log[2][1] = "on" /\ log[3][1] = "on"
    /\ log[1][2] = log[3][2] /\ log[2][2] # log[1][2]
    /\ log[1][3] # log[3][3]
    /\ log[4][1] = "emit" /\ log[4][2] = log[1][2]
    /\ log[5] = <<"call", log[1][3], log[4][3]>>
    /\ log[6] = <<"call", log[3][3], log[4][3]>>

\* ---------------------------------------------------------------- C27

\* C27: a ride has a distance in 1..100 and a fare of twice its distance; a
\* ride is registered with status requested by a step that changes no rider,
\* no driver and no ride registered before; the distance and the fare of a
\* registered ride never change.
C27_RideRequestFields ==
    /\ [](\A k \in 1..Len(rides) :
            /\ rides[k].distance \in 1..MaxDistance
            /\ rides[k].fare = FarePerDistance * rides[k].distance)
    /\ [][ /\ Len(rides') >= Len(rides)
           /\ \A k \in 1..Len(rides) :
                 /\ rides'[k].distance = rides[k].distance
                 /\ rides'[k].fare = rides[k].fare
           /\ Len(rides') > Len(rides) =>
                 /\ rides'[Len(rides')].status = "requested"
                 /\ SubSeq(rides', 1, Len(rides)) = rides
                 /\ UNCHANGED <<users, drivers>> ]_vars

\* C27 witness: a ride of the greatest distance has been paid, driven and
\* completed with the distance and the fare it was built with.
C27_Witness ==
    /\ Len(rides) = 1
    /\ rides[1].status = "completed"
    /\ rides[1].distance = MaxDistance
    /\ rides[1].fare = FarePerDistance * MaxDistance
    /\ drivers[1].profit = rides[1].fare

====
